---- MODULE Spec2Model ----
(***************************************************************************)
(* Cost Manager front end: the rate provider (services/currency.ts), the   *)
(* ledger and the aggregates (services/idb.ts), the Settings handlers, the *)
(* bootstrap (main.tsx) and the vanilla library (public/vanilla/idb.js).   *)
(*                                                                         *)
(* The repository ships two builds that never run in the same page: the    *)
(* React application and the vanilla idb.js library.  `impl` says which    *)
(* one a behaviour is a run of; each action belongs to one build.          *)
(*                                                                         *)
(* JavaScript numbers are modelled exactly: a number is a record           *)
(* [t, n, d] with t = "num" (the rational n/d, d > 0, in lowest terms),    *)
(* "nan" or "inf" (n = 1 or -1); "str" is a string holding a numeral.      *)
(***************************************************************************)
EXTENDS Integers, Sequences, FiniteSets, Bags, TLC

--------------------------------------------------------------------------
(* Bounds of the model *)

\* fetches that may be in flight at once
MaxInflight == 2
\* records the ledger may hold when forms and imports fill it
MaxCosts == 2
\* records the ledger may hold when calls of addCost fill it
MaxLedger == 3

--------------------------------------------------------------------------
(* JavaScript numbers: IEEE-754 binary64 *)

(* A natural number of any size is the sequence of its digits in base    *)
(* Base, lowest first, without leading zero digits; 0 is <<>>.           *)
Base == 16384
LimbBits == 14
\* the width of a binary64 significand
Precision == 53
\* the largest exponent of a finite binary64
MaxExponent == 1024

Abs(x) == IF x < 0 THEN -x ELSE x

RECURSIVE BigTrim(_)
BigTrim(a) ==
  IF a = <<>> THEN a
  ELSE IF a[Len(a)] = 0 THEN BigTrim(SubSeq(a, 1, Len(a) - 1)) ELSE a

RECURSIVE BigOf(_)
\* the digits of a small natural number
BigOf(n) == IF n = 0 THEN <<>> ELSE <<n % Base>> \o BigOf(n \div Base)

Limb(a, i) == IF i <= Len(a) THEN a[i] ELSE 0

RECURSIVE BigAddC(_, _, _, _)
BigAddC(a, b, i, c) ==
  IF i > Len(a) /\ i > Len(b) THEN (IF c = 0 THEN <<>> ELSE <<c>>)
  ELSE LET s == Limb(a, i) + Limb(b, i) + c
       IN  <<s % Base>> \o BigAddC(a, b, i + 1, s \div Base)

BigAdd(a, b) == BigAddC(a, b, 1, 0)

RECURSIVE BigSubC(_, _, _, _)
BigSubC(a, b, i, c) ==
  IF i > Len(a) THEN <<>>
  ELSE LET s == a[i] - Limb(b, i) - c
       IN  IF s < 0 THEN <<s + Base>> \o BigSubC(a, b, i + 1, 1)
           ELSE <<s>> \o BigSubC(a, b, i + 1, 0)

\* a - b for a >= b
BigSub(a, b) == BigTrim(BigSubC(a, b, 1, 0))

RECURSIVE BigCmpAt(_, _, _)
BigCmpAt(a, b, i) ==
  IF i = 0 THEN 0
  ELSE IF a[i] < b[i] THEN -1
  ELSE IF a[i] > b[i] THEN 1
  ELSE BigCmpAt(a, b, i - 1)

\* -1, 0 or 1 as a < b, a = b or a > b
BigCmp(a, b) ==
  IF Len(a) < Len(b) THEN -1
  ELSE IF Len(a) > Len(b) THEN 1
  ELSE BigCmpAt(a, b, Len(a))

RECURSIVE BigMulSmallC(_, _, _, _)
BigMulSmallC(a, k, i, c) ==
  IF i > Len(a) THEN (IF c = 0 THEN <<>> ELSE <<c>>)
  ELSE LET s == a[i] * k + c
       IN  <<s % Base>> \o BigMulSmallC(a, k, i + 1, s \div Base)

\* a * k for 0 <= k < Base
BigMulSmall(a, k) == IF k = 0 THEN <<>> ELSE BigMulSmallC(a, k, 1, 0)

\* a * Base^n
BigShlLimbs(a, n) == IF a = <<>> THEN a ELSE [i \in 1..n |-> 0] \o a

RECURSIVE BigMulAt(_, _, _)
BigMulAt(a, b, i) ==
  IF i > Len(b) THEN <<>>
  ELSE BigAdd(BigShlLimbs(BigMulSmall(a, b[i]), i - 1), BigMulAt(a, b, i + 1))

BigMul(a, b) == BigMulAt(a, b, 1)

\* a * 2^k
BigShl(a, k) ==
  BigShlLimbs(BigMulSmall(a, 2 ^ (k % LimbBits)), k \div LimbBits)

\* a \div 2^k
BigShr(a, k) ==
  LET q == k \div LimbBits
      r == k % LimbBits
  IN  IF q >= Len(a) THEN <<>>
      ELSE BigTrim([i \in 1..(Len(a) - q) |->
              (a[i + q] \div (2 ^ r))
                + (Limb(a, i + q + 1) % (2 ^ r)) * (2 ^ (LimbBits - r))])

\* a % 2^k is not 0
BigLowBits(a, k) ==
  LET q == k \div LimbBits
      r == k % LimbBits
  IN  \/ \E i \in 1..Len(a) : i <= q /\ a[i] # 0
      \/ Limb(a, q + 1) % (2 ^ r) # 0

\* bit k of a, counted from 0
BigBit(a, k) == (Limb(a, (k \div LimbBits) + 1) \div (2 ^ (k % LimbBits))) % 2

\* the number of bits of a digit
LimbLen(x) == IF x = 0 THEN 0 ELSE CHOOSE k \in 1..LimbBits : 2 ^ (k - 1) <= x /\ x < 2 ^ k

\* the number of bits of a
BitLen(a) ==
  IF a = <<>> THEN 0 ELSE (Len(a) - 1) * LimbBits + LimbLen(a[Len(a)])

\* the number of zero bits a # 0 ends with
BigTrailingZeros(a) ==
  LET i == CHOOSE i \in 1..Len(a) : a[i] # 0 /\ \A j \in 1..(i - 1) : a[j] = 0
      z == CHOOSE z \in 0..(LimbBits - 1) :
             a[i] % (2 ^ z) = 0 /\ (a[i] \div (2 ^ z)) % 2 = 1
  IN  (i - 1) * LimbBits + z

RECURSIVE BigFixQ(_, _, _)
\* the largest q' <= q with d * q' <= r
BigFixQ(d, r, q) ==
  IF BigCmp(BigMulSmall(d, q), r) > 0 THEN BigFixQ(d, r, q - 1) ELSE q

\* the remainder so far with the next digit of the dividend under it
BigPush(x, r) == BigTrim(<<x>> \o r)

\* the next digit of the quotient: the estimate from the two top digits
\* of the remainder, corrected downwards
BigDigit(d, r) ==
  LET est == (Limb(r, Len(d) + 1) * Base + Limb(r, Len(d))) \div d[Len(d)]
  IN  BigFixQ(d, r, IF est > Base - 1 THEN Base - 1 ELSE est)

\* what is left of the remainder once the next digit is taken out
BigRem(d, r) == BigSub(r, BigMulSmall(d, BigDigit(d, r)))

RECURSIVE BigDivLoop(_, _, _, _, _)
\* long division of the digits i..1 of a by d, whose top digit is at
\* least Base / 2, with r the remainder and q the quotient so far
BigDivLoop(a, d, i, r, q) ==
  IF i = 0 THEN [q |-> BigTrim(q), r |-> r]
  ELSE BigDivLoop(a, d, i - 1, BigRem(d, BigPush(a[i], r)),
                  <<BigDigit(d, BigPush(a[i], r))>> \o q)

\* the division of a by d, both shifted so that the top digit of d is at
\* least Base / 2
BigDivNorm(a, d) == BigDivLoop(a, d, Len(a), <<>>, <<>>)

\* a \div d in q, and in r a natural number that is 0 iff a % d = 0
BigDivMod(a, d) ==
  LET s == LimbBits - LimbLen(d[Len(d)])
  IN  BigDivNorm(BigShl(a, s), BigShl(d, s))

(* A JavaScript value that is used as a number. A finite number is       *)
(* sg * m * 2^e with m odd (or 0, with sg = 0 and e = 0), so that equal  *)
(* numbers are equal records; -0 is not told from 0.                     *)
NaN == [t |-> "nan", sg |-> 0, m |-> <<>>, e |-> 0]
Inf(s) == [t |-> "inf", sg |-> s, m |-> <<>>, e |-> 0]
Zero == [t |-> "num", sg |-> 0, m |-> <<>>, e |-> 0]

\* the number sg * m * 2^e, which is a binary64
Exact(sg, m, e) ==
  IF m = <<>> \/ sg = 0 THEN Zero
  ELSE LET z == BigTrailingZeros(m)
       IN  [t |-> "num", sg |-> sg, m |-> BigShr(m, z), e |-> e + z]

\* sg * q * 2^e, or the infinity that an overflow gives
RoundDone(sg, q, e) ==
  IF BitLen(q) + e > MaxExponent THEN Inf(sg) ELSE Exact(sg, q, e)

\* the kept bits q rounded to even: half is the first dropped bit, rest
\* tells that a later one is set
RoundKept(sg, q, e, half, rest) ==
  RoundDone(sg, IF half /\ (rest \/ BigBit(q, 0) = 1) THEN BigAdd(q, <<1>>) ELSE q, e)

\* the rounding that drops the k > 0 low bits of m
RoundAt(sg, m, e, sticky, k) ==
  RoundKept(sg, BigShr(m, k), e + k, BigBit(m, k - 1) = 1,
            sticky \/ BigLowBits(m, k - 1))

\* the binary64 nearest to sg * (m + f) * 2^e, ties to even, where
\* 0 <= f < 1 and sticky tells f # 0; m has 55 bits or more when sticky
RoundNearest(sg, m, e, sticky) ==
  IF BitLen(m) <= Precision THEN Exact(sg, m, e)
  ELSE RoundAt(sg, m, e, sticky, BitLen(m) - Precision)

\* the quotient and remainder dm rounded
DivRounded(sg, dm, e) == RoundNearest(sg, dm.q, e, dm.r # <<>>)

\* sg * (mx * 2^ex) / (my * 2^ey) rounded, my # 0
DivNearest(sg, mx, ex, my, ey) ==
  IF my = <<1>> THEN Exact(sg, mx, ex - ey)
  ELSE LET need == BitLen(my) + Precision + 2 - BitLen(mx)
           s == IF need > 0 THEN need ELSE 0
       IN  DivRounded(sg, BigDivMod(BigShl(mx, s), my), ex - ey - s)

\* the number the numeral n/d denotes (d # 0): the binary64 nearest to it
Q(n, d) ==
  IF n = 0 THEN Zero
  ELSE DivNearest(IF (n < 0) = (d < 0) THEN 1 ELSE -1,
                  BigOf(Abs(n)), 0, BigOf(Abs(d)), 0)

\* the number 100
Hundred == Exact(1, BigOf(100), 0)

\* a string holding the numeral of n/d
Str(n, d) == [t |-> "str", v |-> Q(n, d)]
\* a string that is not a numeral
Text == [t |-> "str", v |-> NaN]
\* null where a number is expected
Null == [t |-> "null"]

Sign(x) == x.sg

\* Number(v): a numeric string becomes its number, null becomes 0, a
\* number stays
ToNumber(v) ==
  IF v.t = "str" THEN v.v ELSE IF v.t = "null" THEN Zero ELSE v

\* Number.isFinite / isFinite on a number
IsFinite(x) == x.t = "num"

\* JavaScript truthiness of a number: 0 and NaN are falsy
Truthy(x) == (x.t = "num" /\ x.sg # 0) \/ x.t = "inf"

\* x || 0 on numbers
OrZero(x) == IF Truthy(x) THEN x ELSE Zero

\* sx * mx * 2^e + sy * my * 2^e rounded, for mx, my # 0
AddAligned(sx, mx, sy, my, e) ==
  IF sx # sy /\ BigCmp(mx, my) = 0 THEN Zero
  ELSE RoundNearest(IF sx = sy \/ BigCmp(mx, my) > 0 THEN sx ELSE sy,
                    IF sx = sy THEN BigAdd(mx, my)
                    ELSE IF BigCmp(mx, my) > 0 THEN BigSub(mx, my)
                    ELSE BigSub(my, mx),
                    e, FALSE)

\* x + y for finite x, y # 0, with e the smaller exponent
AddFinite(x, y, e) ==
  AddAligned(x.sg, BigShl(x.m, x.e - e), y.sg, BigShl(y.m, y.e - e), e)

\* x + y
NumAdd(x, y) ==
  IF x.t = "nan" \/ y.t = "nan" THEN NaN
  ELSE IF x.t = "inf" /\ y.t = "inf" THEN (IF x.sg = y.sg THEN x ELSE NaN)
  ELSE IF x.t = "inf" THEN x
  ELSE IF y.t = "inf" THEN y
  ELSE IF x.sg = 0 THEN y
  ELSE IF y.sg = 0 THEN x
  ELSE AddFinite(x, y, IF x.e < y.e THEN x.e ELSE y.e)

\* x * y
NumMul(x, y) ==
  IF x.t = "nan" \/ y.t = "nan" THEN NaN
  ELSE IF x.t = "inf" \/ y.t = "inf"
       THEN (IF Sign(x) * Sign(y) = 0 THEN NaN ELSE Inf(Sign(x) * Sign(y)))
  ELSE IF x.sg = 0 \/ y.sg = 0 THEN Zero
  ELSE RoundNearest(x.sg * y.sg, BigMul(x.m, y.m), x.e + y.e, FALSE)

\* x / y
NumDiv(x, y) ==
  IF x.t = "nan" \/ y.t = "nan" THEN NaN
  ELSE IF x.t = "inf" /\ y.t = "inf" THEN NaN
  ELSE IF x.t = "inf" THEN Inf(IF Sign(y) < 0 THEN -x.sg ELSE x.sg)
  ELSE IF y.t = "inf" THEN Zero
  ELSE IF y.sg = 0 THEN (IF x.sg = 0 THEN NaN ELSE Inf(Sign(x)))
  ELSE IF x.sg = 0 THEN Zero
  ELSE DivNearest(x.sg * y.sg, x.m, x.e, y.m, y.e)

\* x > 0
Positive(x) == x.t # "nan" /\ x.sg > 0

\* floor(sg * m / 2^k + 1/2) for m # 0 and k > 0, where half is 2^(k-1):
\* a negative number goes up to the integer above it
RoundHalf(sg, m, k, half) ==
  IF sg < 0 /\ BigCmp(m, half) <= 0 THEN Zero
  ELSE Exact(sg,
             BigShr(IF sg > 0 THEN BigAdd(m, half)
                    ELSE BigSub(BigAdd(m, half), <<1>>), k),
             0)

\* Math.round(x): the integer floor(x + 1/2), computed without rounding
MathRound(x) ==
  IF x.t # "num" \/ x.e >= 0 THEN x
  ELSE RoundHalf(x.sg, x.m, -x.e, BigShl(<<1>>, -x.e - 1))

--------------------------------------------------------------------------
(* Currencies, rate tables, the rates URL *)

\* types.ts: Currency
Currency == {"USD", "ILS", "GBP", "EURO"}
\* a code outside the four: currency strings are not checked at run time
ForeignCurrency == "JPY"

\* null where a Rates table is expected
NoRates == [null |-> TRUE]

DEFAULT_RATES_URL == "default"
CustomUrl == "custom"
\* localStorage.getItem of a key that was never set
NoItem == "null"

\* The validation order of the two builds
KeysTs == <<"USD", "ILS", "GBP", "EURO">>
KeysVanilla == <<"USD", "GBP", "EURO", "ILS">>

\* Number(obj?.[k]): a missing key is undefined, whose number is NaN
RateOf(obj, k) == IF k \in DOMAIN obj THEN ToNumber(obj[k]) ELSE NaN

BadRate(v) == ~IsFinite(v) \/ ~Positive(v)

Min(S) == CHOOSE x \in S : \A y \in S : x <= y

\* normalizeRates with its keys in the order `keys`: the table, or the
\* first key whose value fails ("Invalid rate for <key>")
NormalizeWith(obj, keys) ==
  LET bad == {i \in 1..Len(keys) : BadRate(RateOf(obj, keys[i]))}
  IN  IF bad = {}
      THEN [ok |-> TRUE, rates |-> [k \in Currency |-> RateOf(obj, k)],
            error |-> ""]
      ELSE [ok |-> FALSE, rates |-> NoRates, error |-> keys[Min(bad)]]

\* a validation that stops after the first key
NormalizeFirstKeyOnly(obj) ==
  LET keys == <<"USD">>
      bad == {i \in 1..Len(keys) : BadRate(RateOf(obj, keys[i]))}
  IN  IF bad = {}
      THEN [ok |-> TRUE, rates |-> [k \in Currency |-> RateOf(obj, k)],
            error |-> ""]
      ELSE [ok |-> FALSE, rates |-> NoRates, error |-> keys[Min(bad)]]

\* currency.ts normalizeRates
normalizeRates(obj) == NormalizeWith(obj, KeysTs)

\* idb.js normalizeRates
normalizeRatesVanilla(obj) == NormalizeWith(obj, KeysVanilla)

\* A table is valid: the four keys, each a finite number > 0
ValidTable(r) ==
  /\ DOMAIN r = Currency
  /\ \A k \in Currency : IsFinite(r[k]) /\ Positive(r[k])

(* Response bodies and candidate tables *)
\* the README's sample table
RawA == [USD |-> Q(1, 1), GBP |-> Q(18, 10), EURO |-> Q(7, 10), ILS |-> Q(34, 10)]
\* a later content of the same resource
RawB == [USD |-> Q(1, 1), GBP |-> Q(3, 4), EURO |-> Q(9, 10), ILS |-> Q(37, 10)]
\* numerals as strings and a key outside the four
RawC == [USD |-> Str(1, 1), GBP |-> Q(4, 5), EURO |-> Q(1, 1), ILS |-> Q(4, 1),
         JPY |-> Q(150, 1)]
RawMissingILS == [USD |-> Q(1, 1), GBP |-> Q(18, 10), EURO |-> Q(7, 10)]
RawZeroGBP == [USD |-> Q(1, 1), GBP |-> Zero, EURO |-> Q(7, 10), ILS |-> Q(34, 10)]
RawNegEURO == [USD |-> Q(1, 1), GBP |-> Q(18, 10), EURO |-> Q(-7, 10), ILS |-> Q(34, 10)]
RawNaNUSD == [USD |-> NaN, GBP |-> Q(18, 10), EURO |-> Q(7, 10), ILS |-> Q(34, 10)]
RawInfILS == [USD |-> Q(1, 1), GBP |-> Q(18, 10), EURO |-> Q(7, 10), ILS |-> Inf(1)]

\* what a user may paste as inline JSON or carry in an import's rates block
Candidates == {RawA, RawC, RawMissingILS, RawZeroGBP, RawNegEURO, RawNaNUSD, RawInfILS}

\* the bodies a URL may answer with (its content changes over time)
Served(url) ==
  IF url = DEFAULT_RATES_URL THEN {RawA, RawB} ELSE {RawB, RawMissingILS}

\* the ways a fetch ends: no response, a non-success status, or a body
FetchOutcomes(url) ==
  {[kind |-> "network", body |-> NoRates], [kind |-> "http", body |-> NoRates]}
    \cup {[kind |-> "body", body |-> b] : b \in Served(url)}

--------------------------------------------------------------------------
(* Conversion *)

\* a thrown Error
Throw(msg) == [ok |-> FALSE, v |-> NaN, error |-> msg]
Return(v) == [ok |-> TRUE, v |-> v, error |-> ""]

\* r[code] is falsy: the key is missing, or its value is 0 or NaN
NoRate(r, code) == ~(code \in DOMAIN r) \/ ~Truthy(r[code])

\* a conversion that divides by the target's rate and multiplies by the
\* source's
ConvertValueInverted(amount, rf, rt) == NumMul(NumDiv(OrZero(amount), rt), rf)

\* the arithmetic of convert, once both rates are there
ConvertValue(amount, rf, rt) == NumMul(NumDiv(OrZero(amount), rf), rt)

\* currency.ts convert(amount, from, to, rates) with rates given, or with
\* rates missing and `cur` the module's current table
convertTs(amount, from, to, rates, cur) ==
  LET r == IF rates # NoRates THEN rates ELSE cur
  IN  IF r = NoRates
      THEN (IF from = to THEN Return(OrZero(amount))
            ELSE Throw("Rates are not loaded yet."))
      ELSE IF NoRate(r, from) \/ NoRate(r, to)
           THEN Throw("Missing rate for conversion.")
           ELSE Return(ConvertValue(amount, r[from], r[to]))

\* idb.js convert(amount, from, to, rates)
convertVanilla(amount, from, to, rates, cur) ==
  LET r == IF rates # NoRates THEN rates ELSE cur
  IN  IF r = NoRates THEN Throw("Rates are not loaded.")
      ELSE IF NoRate(r, from) \/ NoRate(r, to)
           THEN Throw("Missing rate for conversion.")
           ELSE Return(ConvertValue(amount, r[from], r[to]))

\* idb.ts conv(v, from, to, r): the table r was read by the caller
conv(v, from, to, r) ==
  IF r = NoRates \/ from = to THEN Return(v)
  ELSE LET x == convertTs(v, from, to, r, NoRates)
       IN  IF ~x.ok THEN x
           ELSE IF IsFinite(x.v) THEN x ELSE Return(v)

\* Math.round(x * 100) / 100
Round2(x) == NumDiv(MathRound(NumMul(x, Hundred)), Hundred)

\* y.toFixed(2) for |y| < 10^21: the text, told by its sign and by the
\* digits it shows, read as a number of hundredths; the hundredths are
\* those nearest to the exact value of y, the larger of two that are
\* equally near
Fixed2(y) ==
  IF ~IsFinite(y) THEN [text |-> y.t]
  ELSE [neg |-> y.sg < 0,
        cents |-> MathRound(Exact(1, BigMulSmall(y.m, 100), y.e))]

\* currency.ts toFixed2(n)
toFixed2(n) == Fixed2(Round2(n))

--------------------------------------------------------------------------
(* Sequences *)

RECURSIVE SelectSeqBy(_, _)
\* the subsequence of s at the indices in `keep`, in order
SelectSeqBy(s, keep) ==
  IF s = <<>> THEN <<>>
  ELSE LET n == Len(s)
           front == SelectSeqBy(SubSeq(s, 1, n - 1), keep)
       IN  IF n \in keep THEN Append(front, s[n]) ELSE front

RECURSIVE SumSeq(_)
\* reduce((s, c) => s + c, 0), left to right
SumSeq(s) ==
  IF s = <<>> THEN Zero
  ELSE NumAdd(SumSeq(SubSeq(s, 1, Len(s) - 1)), s[Len(s)])

\* the positions of s whose element satisfies nothing undone: 1..Len(s)
Indices(s) == 1..Len(s)

--------------------------------------------------------------------------
(* Aggregates of idb.ts, as functions of the rows read and the table r *)

\* rows.filter(c => c.Date?.year === year && c.Date?.month === month)
FilterMonth(rows, year, month) ==
  SelectSeqBy(rows, {i \in Indices(rows) :
                       rows[i].Date.year = year /\ rows[i].Date.month = month})

\* rows.filter(c => c.Date?.year === year)
FilterYear(rows, year) ==
  SelectSeqBy(rows, {i \in Indices(rows) : rows[i].Date.year = year})

\* conv(Number(c.sum || 0), c.currency, target, r) of one stored row
RowAmount(c, target, r) == conv(OrZero(c.sum), c.currency, target, r)

\* toUiCost(c, target, r), for a row whose conversion did not throw
toUiCost(c, target, r) ==
  [sum |-> RowAmount(c, target, r).v, currency |-> target,
   category |-> c.category, description |-> c.description,
   Date |-> [day |-> c.Date.day]]

\* some conversion of the rows throws
AnyThrow(rows, target, r) ==
  \E i \in Indices(rows) : ~RowAmount(rows[i], target, r).ok

\* getReport once the rows are read: the report, or the rejection
ReportOf(rows, year, month, target, r) ==
  LET filtered == FilterMonth(rows, year, month)
  IN  IF AnyThrow(filtered, target, r)
      THEN [ok |-> FALSE, value |-> <<>>]
      ELSE LET costs == [i \in Indices(filtered) |-> toUiCost(filtered[i], target, r)]
               sums == [i \in Indices(filtered) |-> OrZero(costs[i].sum)]
           IN  [ok |-> TRUE,
                value |-> [year |-> year, month |-> month, costs |-> costs,
                           total |-> [currency |-> target,
                                      total |-> Round2(SumSeq(sums))]]]

RECURSIVE FirstSeen(_)
\* the distinct categories of the rows in first-occurrence order (Map keys)
FirstSeen(rows) ==
  IF rows = <<>> THEN <<>>
  ELSE LET n == Len(rows)
           front == FirstSeen(SubSeq(rows, 1, n - 1))
       IN  IF \E i \in 1..Len(front) : front[i] = rows[n].category
           THEN front ELSE Append(front, rows[n].category)

\* the running value of one Map entry: (map.get(k) || 0) + amount per row
RECURSIVE Accumulate(_, _)
Accumulate(rows, amounts) ==
  IF rows = <<>> THEN Zero
  ELSE LET n == Len(rows)
       IN  NumAdd(OrZero(Accumulate(SubSeq(rows, 1, n - 1),
                                    SubSeq(amounts, 1, n - 1))),
                  amounts[n])

\* totals that put every row under the category of the first
CategoryTotalsLumped(rows, year, month, target, r) ==
  LET filtered == FilterMonth(rows, year, month)
  IN  IF AnyThrow(filtered, target, r)
      THEN [ok |-> FALSE, value |-> <<>>]
      ELSE [ok |-> TRUE,
            value |-> IF filtered = <<>> THEN <<>>
                      ELSE <<[name |-> filtered[1].category,
                              value |-> Accumulate(filtered,
                                 [i \in Indices(filtered) |->
                                    RowAmount(filtered[i], target, r).v])]>>]

\* getMonthCategoryTotals once the rows are read
CategoryTotalsOf(rows, year, month, target, r) ==
  LET filtered == FilterMonth(rows, year, month)
  IN  IF AnyThrow(filtered, target, r)
      THEN [ok |-> FALSE, value |-> <<>>]
      ELSE LET names == FirstSeen(filtered)
               of(name) == SelectSeqBy(filtered,
                              {i \in Indices(filtered) : filtered[i].category = name})
           IN  [ok |-> TRUE,
                value |-> [j \in 1..Len(names) |->
                   [name |-> names[j],
                    value |-> Accumulate(of(names[j]),
                       [i \in Indices(of(names[j])) |->
                           RowAmount(of(names[j])[i], target, r).v])]]]

\* String(m).padStart(2, '0') for m in 1..12
MonthLabel == <<"01", "02", "03", "04", "05", "06",
                "07", "08", "09", "10", "11", "12">>

\* totals that list only the months that have a row
YearTotalsSparse(rows, year, target, r) ==
  LET filtered == FilterYear(rows, year)
      months == {m \in 1..12 :
                   \E i \in Indices(filtered) : filtered[i].Date.month = m}
  IN  [ok |-> TRUE,
       value |-> [j \in 1..Cardinality(months) |->
                    [month |-> "00", total |-> Zero]]]

\* getYearMonthTotals once the rows are read
YearTotalsOf(rows, year, target, r) ==
  LET filtered == FilterYear(rows, year)
  IN  IF AnyThrow(filtered, target, r)
      THEN [ok |-> FALSE, value |-> <<>>]
      ELSE LET of(m) == SelectSeqBy(filtered,
                           {i \in Indices(filtered) : filtered[i].Date.month = m})
           IN  [ok |-> TRUE,
                value |-> [m \in 1..12 |->
                   [month |-> MonthLabel[m],
                    total |-> OrZero(Accumulate(of(m),
                       [i \in Indices(of(m)) |-> RowAmount(of(m)[i], target, r).v]))]]]

\* the aggregate `fn` once the rows are read
AggregateOf(fn, rows, year, month, target, r) ==
  IF fn = "getReport" THEN ReportOf(rows, year, month, target, r)
  ELSE IF fn = "getMonthCategoryTotals"
       THEN CategoryTotalsOf(rows, year, month, target, r)
       ELSE YearTotalsOf(rows, year, target, r)

\* the rows the aggregate `fn` converts
Matching(fn, rows, year, month) ==
  IF fn = "getYearMonthTotals" THEN FilterYear(rows, year)
  ELSE FilterMonth(rows, year, month)

--------------------------------------------------------------------------
(* idb.js getReport, as a function of the rows read and the table `rates` *)

\* the rows of the requested month
VanillaMatching(rows, y, m) ==
  SelectSeqBy(rows, {i \in Indices(rows) :
                       rows[i].Date.year = y /\ rows[i].Date.month = m})

\* the report resolved by rq.onsuccess; ok is FALSE when convert throws
\* inside the handler
VanillaReportOf(rows, y, m, targetCur, rates, cur) ==
  LET hit == VanillaMatching(rows, y, m)
      conv1(it) == convertVanilla(it.sum, it.currency, targetCur, rates, cur)
  IN  IF \E i \in Indices(hit) : ~conv1(hit[i]).ok
      THEN [ok |-> FALSE, value |-> <<>>]
      ELSE [ok |-> TRUE,
            value |-> [year |-> y, month |-> m,
                       costs |-> [i \in Indices(hit) |->
                                    [sum |-> hit[i].sum, currency |-> hit[i].currency,
                                     category |-> hit[i].category,
                                     description |-> hit[i].description,
                                     Date |-> [day |-> hit[i].Date.day]]],
                       total |-> [currency |-> targetCur,
                                  total |-> Round2(SumSeq(
                                     [i \in Indices(hit) |-> conv1(hit[i]).v]))]]]

--------------------------------------------------------------------------
(* State *)

VARIABLES
  impl,           \* "react" or "vanilla": the build that runs
  lsSource,       \* localStorage ratesSource
  lsUrl,          \* localStorage ratesUrl
  lsInline,       \* localStorage ratesInline, as the table it parses to
  currentRates,   \* currency.ts currentRates
  _ratesUrl,      \* idb.js _ratesUrl
  _inlineRates,   \* idb.js _inlineRates
  _currentRates,  \* idb.js _currentRates
  inflight,       \* the fetches awaiting their response: a bag of [op, url]
  costs,          \* the rows of the 'costs' object store, in key order
  keyGen,         \* the store's autoIncrement key generator
  call,           \* the aggregate call in progress or last settled
  lastEvent       \* history: what the last handler did

vars == <<impl, lsSource, lsUrl, lsInline, currentRates, _ratesUrl,
          _inlineRates, _currentRates, inflight, costs, keyGen, call, lastEvent>>

reactVars == <<lsSource, lsUrl, lsInline, currentRates>>
vanillaVars == <<_ratesUrl, _inlineRates, _currentRates>>
dbVars == <<costs, keyGen>>

NoCall == [phase |-> "none"]
NoFetch == "none"

\* history record: the handler, the URL it sent a request to, whether it
\* rejected a candidate table, and the active table before the rejection
Ev(op, fetched, rejected, before) ==
  [op |-> op, fetched |-> fetched, rejected |-> rejected, before |-> before]

React == impl = "react"
Vanilla == impl = "vanilla"

\* the active table of the build that runs
ActiveRates == IF React THEN currentRates ELSE _currentRates

--------------------------------------------------------------------------
(* currency.ts: configuration helpers *)

\* a reading of the wrong key: the source is never 'inline-json'
getRatesSourceNeverInline == "url"

getRatesSource == IF lsSource = "inline-json" THEN "inline-json" ELSE "url"

getRatesUrl == IF lsUrl = NoItem THEN DEFAULT_RATES_URL ELSE lsUrl

\* a write of the inline table that is lost
JsonLosesTable(rates) == NoRates

\* JSON.parse(JSON.stringify(rates)): a number that is not finite comes
\* back as null, which no longer is a number
JsonRoundTrip(rates) ==
  IF rates = NoRates THEN NoRates
  ELSE [k \in DOMAIN rates |->
          IF IsFinite(rates[k]) THEN rates[k] ELSE Null]

getInlineRates == lsInline

\* the request fetchRatesFrom(url) leaves in flight on behalf of `op`
Fetch(op, url) == [op |-> op, url |-> url]

Pending == BagCardinality(inflight)

\* a fetch that did not end with a body: res.ok is false, or no response
NoBody(out) == [ok |-> FALSE, rates |-> NoRates, error |-> out.kind]

\* currency.ts fetchRatesFrom(url) once the response `out` is there
fetchRatesFrom(out) ==
  IF out.kind = "body" THEN normalizeRates(out.body) ELSE NoBody(out)

\* idb.js fetchRatesFrom(url) once the response `out` is there
fetchRatesFromVanilla(out) ==
  IF out.kind = "body" THEN normalizeRatesVanilla(out.body) ELSE NoBody(out)

--------------------------------------------------------------------------
(* React application: bootstrap and rate provider *)

\* a page load whose memory is not fresh: the table of the previous page
\* is still in currentRates
ProcessStartKeepsCache ==
  /\ React
  /\ IF getRatesSource = "inline-json"
     THEN /\ currentRates' = getInlineRates
          /\ inflight' = EmptyBag
          /\ lastEvent' = Ev("start", NoFetch, FALSE, NoRates)
     ELSE /\ currentRates' = currentRates
          /\ inflight' = SetToBag({Fetch("init", getRatesUrl)})
          /\ lastEvent' = Ev("start", getRatesUrl, FALSE, NoRates)
  /\ call' = NoCall
  /\ UNCHANGED <<impl, lsSource, lsUrl, lsInline, vanillaVars, dbVars>>

\* a page load: main.tsx calls initCurrencyRates, which runs to its first
\* await; what was in memory or in flight in the previous page is gone
ProcessStart ==
  /\ React
  /\ IF getRatesSource = "inline-json"
     THEN /\ currentRates' = getInlineRates
          /\ inflight' = EmptyBag
          /\ lastEvent' = Ev("start", NoFetch, FALSE, NoRates)
     ELSE /\ currentRates' = NoRates
          /\ inflight' = SetToBag({Fetch("init", getRatesUrl)})
          /\ lastEvent' = Ev("start", getRatesUrl, FALSE, NoRates)
  /\ call' = NoCall
  /\ UNCHANGED <<impl, lsSource, lsUrl, lsInline, vanillaVars, dbVars>>

\* the response of a fetch arrives: initCurrencyRates or
\* refreshRatesFromUrl resumes
FetchDone(f, out) ==
  /\ React
  /\ f \in BagToSet(inflight)
  /\ out \in FetchOutcomes(f.url)
  /\ inflight' = inflight (-) SetToBag({f})
  /\ LET res == fetchRatesFrom(out)
     IN  IF res.ok
         THEN /\ currentRates' = res.rates
              /\ lastEvent' = Ev("fetched", NoFetch, FALSE, NoRates)
         ELSE /\ currentRates' = currentRates
              /\ lastEvent' = Ev("fetchFailed", NoFetch, out.kind = "body",
                                 IF out.kind = "body" THEN currentRates ELSE NoRates)
  /\ UNCHANGED <<impl, lsSource, lsUrl, lsInline, vanillaVars, dbVars, call>>

\* refreshRatesFromUrl up to its await (the "Refresh rates" button)
RefreshRatesFromUrl ==
  /\ React
  /\ Pending < MaxInflight
  /\ inflight' = inflight (+) SetToBag({Fetch("refresh", getRatesUrl)})
  /\ lastEvent' = Ev("refresh", getRatesUrl, FALSE, NoRates)
  /\ UNCHANGED <<impl, reactVars, vanillaVars, dbVars, call>>

\* Settings.saveUrl with the text field holding `url` ("" is an empty field):
\* setRatesUrl, setRatesSource('url'), refreshRatesFromUrl up to its await
SaveUrl(url) ==
  /\ React
  /\ Pending < MaxInflight
  /\ LET finalUrl == IF url = "" THEN DEFAULT_RATES_URL ELSE url
     IN  /\ lsUrl' = finalUrl
         /\ lsSource' = "url"
         /\ inflight' = inflight (+) SetToBag({Fetch("refresh", finalUrl)})
         /\ lastEvent' = Ev("saveUrl", finalUrl, FALSE, NoRates)
  /\ UNCHANGED <<impl, lsInline, currentRates, vanillaVars, dbVars, call>>

\* Settings.saveInline with the text field holding the JSON of `raw`:
\* normalizeRates, then setInlineRates
SaveInline(raw) ==
  /\ React
  /\ LET norm == normalizeRates(raw)
     IN  IF norm.ok
         THEN /\ lsInline' = JsonRoundTrip(norm.rates)
              /\ lsSource' = "inline-json"
              /\ currentRates' = norm.rates
              /\ lastEvent' = Ev("saveInline", NoFetch, FALSE, NoRates)
         ELSE /\ UNCHANGED <<lsInline, lsSource, currentRates>>
              /\ lastEvent' = Ev("saveInline", NoFetch, TRUE, currentRates)
  /\ UNCHANGED <<impl, lsUrl, vanillaVars, inflight, dbVars, call>>

\* a click on a radio of the "Rates source" group: setRatesSource(s)
RadioSource(s) ==
  /\ React
  /\ lsSource' = s
  /\ lastEvent' = Ev(IF s = "url" THEN "radioUrl" ELSE "radioInline",
                     NoFetch, FALSE, NoRates)
  /\ UNCHANGED <<impl, lsUrl, lsInline, currentRates, vanillaVars, inflight,
                 dbVars, call>>

\* Settings.onFileChange with a readable file: setRatesSource('inline-json')
OnFileChange ==
  /\ React
  /\ lsSource' = "inline-json"
  /\ lastEvent' = Ev("file", NoFetch, FALSE, NoRates)
  /\ UNCHANGED <<impl, lsUrl, lsInline, currentRates, vanillaVars, inflight,
                 dbVars, call>>

--------------------------------------------------------------------------
(* React application: ledger (idb.ts) *)

\* the dates the clock may show when a record is stamped
Dates == {[year |-> 2025, month |-> 1, day |-> 5],
          [year |-> 2025, month |-> 2, day |-> 3]}

\* idb.ts addCost builds this item from CostForm's fields; store.add gives
\* it the next key
StoredCostOf(input, today, id) ==
  [id |-> id, sum |-> ToNumber(OrZero(input.sum)), currency |-> input.currency,
   category |-> input.category, description |-> input.description,
   Date |-> today, dateISO |-> "undefined"]

\* what a promise that resolves with nothing delivers
Undefined == [undefined |-> TRUE]

\* the ways the transaction of an add does not complete: a request fails,
\* so that an error event reaches the transaction before it aborts, or the
\* commit fails, so that the transaction aborts with an abort event only
TxFailures == {"error", "abort"}

\* history record of a call of addCost: its argument, how its
\* transaction ended ("complete", a member of TxFailures, or "none" when
\* the call opened none), how its promise ended ("pending" when no
\* handler is left that settles it) and the value it resolved with
AddEv(input, tx, outcome, returned) ==
  [op |-> "addCost", fetched |-> NoFetch, rejected |-> FALSE,
   before |-> NoRates, input |-> input, failed |-> outcome = "rejected",
   tx |-> tx, outcome |-> outcome, returned |-> returned]

\* CostForm.submit with the fields `input` on the day `today`: returns at
\* once unless sum > 0, else addCost
AddCost(input, today) ==
  /\ React
  /\ Len(costs) < MaxCosts
  /\ IF Truthy(input.sum) /\ Positive(input.sum)
     THEN /\ costs' = Append(costs, StoredCostOf(input, today, keyGen))
          /\ keyGen' = keyGen + 1
          /\ lastEvent' = AddEv(input, "complete", "resolved", Undefined)
     ELSE /\ UNCHANGED dbVars
          /\ lastEvent' = Ev("submit", NoFetch, FALSE, NoRates)
  /\ UNCHANGED <<impl, reactVars, vanillaVars, inflight, call>>

\* idb.ts addCost(input) called on the day `today` by any module: the
\* item is built and added without a check; the promise resolves with
\* nothing once the transaction completes
AddCostApi(input, today) ==
  /\ React
  /\ Len(costs) < MaxLedger
  /\ costs' = Append(costs, StoredCostOf(input, today, keyGen))
  /\ keyGen' = keyGen + 1
  /\ lastEvent' = AddEv(input, "complete", "resolved", Undefined)
  /\ UNCHANGED <<impl, reactVars, vanillaVars, inflight, call>>

\* idb.ts addCost(input) whose transaction does not complete: nothing is
\* stored; tx.onerror rejects the promise, and nothing listens for an
\* abort
AddCostFails(input, how) ==
  /\ React
  /\ lastEvent' = AddEv(input, how, IF how = "error" THEN "rejected" ELSE "pending",
                        Undefined)
  /\ UNCHANGED <<impl, reactVars, vanillaVars, inflight, dbVars, call>>

\* raw.sum || 0, raw.category || '', raw.description ?? '' on a parsed item
Field(raw, name, default) == IF name \in DOMAIN raw THEN raw[name] ELSE default

\* the value is truthy: a numeral string is, whatever its number
TruthyJs(v) == v.t = "str" \/ Truthy(v)

\* Number(raw.sum || 0)
ImportSum(raw) ==
  LET v == Field(raw, "sum", NaN)
  IN  IF TruthyJs(v) THEN ToNumber(v) ELSE Zero

\* raw.Date is an object whose year is a number
HasDate(raw) == "Date" \in DOMAIN raw /\ "year" \in DOMAIN raw.Date

\* an import that keeps the key the payload carries
ImportedCostKeepsKey(raw, today, id) ==
  [id |-> Field(raw, "id", id), sum |-> ImportSum(raw),
   currency |-> Field(raw, "currency", "undefined"),
   category |-> Field(raw, "category", ""),
   description |-> Field(raw, "description", ""),
   Date |-> IF HasDate(raw)
            THEN [year |-> raw.Date.year, month |-> raw.Date.month,
                  day |-> raw.Date.day]
            ELSE today,
   dateISO |-> Field(raw, "dateISO", "undefined")]

\* the item importFromJson stores for `raw`; a key the payload carries is
\* not copied, so store.add assigns the next one
ImportedCostOf(raw, today, id) ==
  [id |-> id, sum |-> ImportSum(raw),
   currency |-> Field(raw, "currency", "undefined"),
   category |-> Field(raw, "category", ""),
   description |-> Field(raw, "description", ""),
   Date |-> IF HasDate(raw)
            THEN [year |-> raw.Date.year, month |-> raw.Date.month,
                  day |-> raw.Date.day]
            ELSE today,
   dateISO |-> Field(raw, "dateISO", "undefined")]

\* the rows an import of the items `arr` appends
ImportedRows(arr, today, firstId) ==
  [i \in 1..Len(arr) |-> ImportedCostOf(arr[i], today, firstId + i - 1)]

\* an import that gives up its records when the rates block is invalid
PayloadCostsIfRatesValid(json) ==
  IF "array" \in DOMAIN json THEN json.array
  ELSE IF "rates" \in DOMAIN json /\ ~normalizeRates(json.rates).ok THEN <<>>
  ELSE IF "costs" \in DOMAIN json THEN json.costs ELSE <<>>

\* Array.isArray(json) ? json : Array.isArray(json?.costs) ? json.costs : [];
\* a payload that is a bare array is written [array |-> <<...>>]
PayloadCosts(json) ==
  IF "array" \in DOMAIN json THEN json.array
  ELSE IF "costs" \in DOMAIN json THEN json.costs ELSE <<>>

\* json.rates is an object
HasRates(json) == "rates" \in DOMAIN json

\* history record of an import: the payload it was given and the count
\* it resolved with
ImportEv(json, returned, rejected, before) ==
  [op |-> "import", fetched |-> NoFetch, rejected |-> rejected,
   before |-> before, payload |-> json, returned |-> returned]

\* importFromJson(json) from the commit of its transaction on: the rows
\* become visible, then the rates block, if any, is normalized and applied;
\* it resolves with the count of the items it added
ImportFromJson(json, today) ==
  /\ React
  /\ LET arr == PayloadCosts(json)
         added == Len(ImportedRows(arr, today, keyGen))
     IN  /\ Len(costs) + Len(arr) <= MaxCosts
         /\ costs' = costs \o ImportedRows(arr, today, keyGen)
         /\ keyGen' = keyGen + Len(arr)
         /\ IF HasRates(json)
            THEN LET norm == normalizeRates(json.rates)
                 IN  IF norm.ok
                     THEN /\ lsInline' = JsonRoundTrip(norm.rates)
                          /\ lsSource' = "inline-json"
                          /\ currentRates' = norm.rates
                          /\ lastEvent' = ImportEv(json, added, FALSE, NoRates)
                     ELSE /\ UNCHANGED <<lsInline, lsSource, currentRates>>
                          /\ lastEvent' = ImportEv(json, added, TRUE, currentRates)
            ELSE /\ UNCHANGED <<lsInline, lsSource, currentRates>>
                 /\ lastEvent' = ImportEv(json, added, FALSE, NoRates)
  /\ UNCHANGED <<impl, lsUrl, vanillaVars, inflight, call>>

\* importFromJson(json) whose single transaction does not complete: the
\* k-th store.add fails and its error event reaches tx.onerror, or the
\* commit fails after every add succeeded and only an abort event is
\* fired. The transaction is rolled back whole, the promise of line 250
\* is rejected or left pending, and the rates block is never reached
ImportFails(json, k, how) ==
  /\ React
  /\ k \in 1..Len(PayloadCosts(json))
  /\ how = "abort" => k = Len(PayloadCosts(json))
  /\ lastEvent' = [op |-> "importFailed", fetched |-> NoFetch, rejected |-> FALSE,
                   before |-> NoRates, payload |-> json, at |-> k, tx |-> how,
                   outcome |-> IF how = "error" THEN "rejected" ELSE "pending"]
  /\ UNCHANGED <<impl, reactVars, vanillaVars, inflight, dbVars, call>>

--------------------------------------------------------------------------
(* React application: aggregates (idb.ts) *)

Aggregates == {"getReport", "getMonthCategoryTotals", "getYearMonthTotals"}

\* no aggregate call is suspended
Idle == call.phase \in {"none", "resolved", "rejected", "hung"}

\* the table read after the await instead of before it
RatesAtCompletion(c) == currentRates

\* the table an aggregate converts with: its local r
RatesOfCall(c) == c.r

\* getReport / getMonthCategoryTotals / getYearMonthTotals up to the first
\* await: r = sessionRates()
AggregateStart(fn, year, month, target) ==
  /\ React
  /\ Idle
  /\ call' = [phase |-> "reading", fn |-> fn, year |-> year, month |-> month,
              currency |-> target, r |-> currentRates,
              rows |-> <<>>, used |-> <<>>, value |-> <<>>]
  /\ lastEvent' = Ev(fn, NoFetch, FALSE, NoRates)
  /\ UNCHANGED <<impl, reactVars, vanillaVars, inflight, dbVars>>

\* store.getAll() succeeds: the aggregate resumes with the rows and runs
\* to its end
AggregateFinish ==
  /\ React
  /\ call.phase = "reading"
  /\ LET r == RatesOfCall(call)
         res == AggregateOf(call.fn, costs, call.year, call.month, call.currency, r)
         hit == Matching(call.fn, costs, call.year, call.month)
     IN  call' = [call EXCEPT !.phase = IF res.ok THEN "resolved" ELSE "rejected",
                              !.rows = hit,
                              !.used = [i \in Indices(hit) |-> r],
                              !.value = res.value]
  /\ lastEvent' = Ev("settled", NoFetch, FALSE, NoRates)
  /\ UNCHANGED <<impl, reactVars, vanillaVars, inflight, dbVars>>

\* JSON.stringify then JSON.parse of a number: one that is not finite is
\* written as null
JsonNumber(x) == IF IsFinite(x) THEN x ELSE Null

\* an export that always writes a rates property
ExportAlwaysRates(all, r) == [costs |-> all, rates |-> r]

\* what exportAll returns for the rows `all` and the session table `r`;
\* a rates property that is undefined is left out
ExportOf(all, r) ==
  IF r # NoRates THEN [costs |-> all, rates |-> r] ELSE [costs |-> all]

\* the export file Settings.exportData writes for the payload, as
\* onImportFile parses it
JsonFile(payload) ==
  LET rows == [i \in Indices(payload.costs) |->
                 [payload.costs[i] EXCEPT !.sum = JsonNumber(payload.costs[i].sum)]]
  IN  IF "rates" \in DOMAIN payload
      THEN [costs |-> rows, rates |-> JsonRoundTrip(payload.rates)]
      ELSE [costs |-> rows]

\* exportAll up to its await: the read of the store is requested
ExportStart ==
  /\ React
  /\ Idle
  /\ call' = [phase |-> "exporting", fn |-> "exportAll", year |-> 0, month |-> 0,
              currency |-> "", r |-> NoRates,
              rows |-> <<>>, used |-> <<>>, value |-> <<>>]
  /\ lastEvent' = Ev("exportAll", NoFetch, FALSE, NoRates)
  /\ UNCHANGED <<impl, reactVars, vanillaVars, inflight, dbVars>>

\* store.getAll() succeeds: exportAll resumes, reads the session table
\* and returns
ExportFinish ==
  /\ React
  /\ call.phase = "exporting"
  /\ call' = [call EXCEPT !.phase = "resolved",
                          !.value = ExportOf(costs, currentRates)]
  /\ lastEvent' = Ev("settled", NoFetch, FALSE, NoRates)
  /\ UNCHANGED <<impl, reactVars, vanillaVars, inflight, dbVars>>

--------------------------------------------------------------------------
(* Vanilla library (idb.js) *)

\* String(s).toUpperCase() on the codes used here
ToUpperCase(s) ==
  CASE s = "usd" -> "USD"
    [] s = "ils" -> "ILS"
    [] s = "jpy" -> "JPY"
    [] OTHER -> s

\* the script is loaded afresh: its variables start over, the database stays
VanillaLoad ==
  /\ Vanilla
  /\ _ratesUrl' = DEFAULT_RATES_URL
  /\ _inlineRates' = NoRates
  /\ _currentRates' = NoRates
  /\ inflight' = EmptyBag
  /\ call' = NoCall
  /\ lastEvent' = Ev("load", NoFetch, FALSE, NoRates)
  /\ UNCHANGED <<impl, reactVars, dbVars>>

\* idb.setRatesUrl(url); "" stands for an empty or blank string
VanillaSetRatesUrl(url) ==
  /\ Vanilla
  /\ _ratesUrl' = IF url = "" THEN DEFAULT_RATES_URL ELSE url
  /\ _currentRates' = NoRates
  /\ lastEvent' = Ev("setRatesUrl", NoFetch, FALSE, NoRates)
  /\ UNCHANGED <<impl, reactVars, _inlineRates, inflight, dbVars, call>>

\* idb.setInlineRates(rates): throws when normalizeRates does
VanillaSetInlineRates(raw) ==
  /\ Vanilla
  /\ LET norm == normalizeRatesVanilla(raw)
     IN  IF norm.ok
         THEN /\ _inlineRates' = norm.rates
              /\ _currentRates' = norm.rates
              /\ lastEvent' = Ev("setInlineRates", NoFetch, FALSE, NoRates)
         ELSE /\ UNCHANGED <<_inlineRates, _currentRates>>
              /\ lastEvent' = Ev("setInlineRates", NoFetch, TRUE, _currentRates)
  /\ UNCHANGED <<impl, reactVars, _ratesUrl, inflight, dbVars, call>>

\* ensureRates() called with `cur` in _currentRates: the table it resolves
\* with at once, or NoRates when it has to fetch
EnsureRatesNow(cur) ==
  IF _inlineRates # NoRates THEN _inlineRates ELSE cur

\* idb.refreshRatesFromUrl(): clears _currentRates, then ensureRates()
VanillaRefresh ==
  /\ Vanilla
  /\ LET now == EnsureRatesNow(NoRates)
     IN  IF now # NoRates
         THEN /\ _currentRates' = now
              /\ inflight' = inflight
              /\ lastEvent' = Ev("refresh", NoFetch, FALSE, NoRates)
         ELSE /\ Pending < MaxInflight
              /\ _currentRates' = NoRates
              /\ inflight' = inflight (+) SetToBag({Fetch("refresh", _ratesUrl)})
              /\ lastEvent' = Ev("refresh", _ratesUrl, FALSE, NoRates)
  /\ UNCHANGED <<impl, reactVars, _ratesUrl, _inlineRates, dbVars, call>>

\* db.getReport(year, month, currency) up to its first suspension:
\* the argument check, ensureRates(), and, when the rates are there, the
\* opening of the read
VanillaGetReport(year, month, currency) ==
  /\ Vanilla
  /\ Idle
  /\ LET targetCur == ToUpperCase(IF currency = "" THEN "USD" ELSE currency)
         c == [phase |-> "reading", fn |-> "getReport", year |-> year,
               month |-> month, currency |-> targetCur, r |-> NoRates,
               rows |-> <<>>, used |-> <<>>, value |-> <<>>]
         now == EnsureRatesNow(_currentRates)
     IN  IF year = 0 \/ month = 0
         THEN /\ call' = [c EXCEPT !.phase = "rejected"]
              /\ UNCHANGED <<_currentRates, inflight>>
              /\ lastEvent' = Ev("getReport", NoFetch, FALSE, NoRates)
         ELSE IF now # NoRates
         THEN /\ call' = [c EXCEPT !.r = now]
              /\ _currentRates' = now
              /\ inflight' = inflight
              /\ lastEvent' = Ev("getReport", NoFetch, FALSE, NoRates)
         ELSE /\ Pending < MaxInflight
              /\ call' = [c EXCEPT !.phase = "rates"]
              /\ _currentRates' = _currentRates
              /\ inflight' = inflight (+) SetToBag({Fetch("getReport", _ratesUrl)})
              /\ lastEvent' = Ev("getReport", _ratesUrl, FALSE, NoRates)
  /\ UNCHANGED <<impl, reactVars, _ratesUrl, _inlineRates, dbVars>>

\* the response of a fetch arrives: ensureRates stores the table and its
\* caller resumes
VanillaFetchDone(f, out) ==
  /\ Vanilla
  /\ f \in BagToSet(inflight)
  /\ out \in FetchOutcomes(f.url)
  /\ inflight' = inflight (-) SetToBag({f})
  /\ LET res == fetchRatesFromVanilla(out)
     IN  IF res.ok
         THEN /\ _currentRates' = res.rates
              /\ call' = IF f.op = "getReport"
                         THEN [call EXCEPT !.phase = "reading", !.r = res.rates]
                         ELSE call
              /\ lastEvent' = Ev("fetched", NoFetch, FALSE, NoRates)
         ELSE /\ _currentRates' = _currentRates
              /\ call' = IF f.op = "getReport"
                         THEN [call EXCEPT !.phase = "rejected"]
                         ELSE call
              /\ lastEvent' = Ev("fetchFailed", NoFetch, out.kind = "body",
                                 IF out.kind = "body" THEN _currentRates ELSE NoRates)
  /\ UNCHANGED <<impl, reactVars, _ratesUrl, _inlineRates, dbVars>>

\* rq.onsuccess of getReport's getAll: the report is built and resolved;
\* when convert throws inside the handler nothing settles the promise
VanillaReadDone ==
  /\ Vanilla
  /\ call.phase = "reading"
  /\ LET res == VanillaReportOf(costs, call.year, call.month, call.currency,
                                call.r, _currentRates)
         hit == VanillaMatching(costs, call.year, call.month)
     IN  call' = [call EXCEPT !.phase = IF res.ok THEN "resolved" ELSE "hung",
                              !.rows = hit,
                              !.used = [i \in Indices(hit) |-> call.r],
                              !.value = res.value]
  /\ lastEvent' = Ev("settled", NoFetch, FALSE, NoRates)
  /\ UNCHANGED <<impl, reactVars, vanillaVars, inflight, dbVars>>

\* the record db.addCost stores for `cost` on the day `today`
VanillaCostOf(cost, today, id) ==
  [id |-> id, sum |-> ToNumber(cost.sum),
   currency |-> ToUpperCase(cost.currency),
   category |-> cost.category, description |-> cost.description,
   Date |-> today, dateISO |-> "iso"]

\* db.addCost(cost): rejects a sum that is not finite or an empty currency,
\* else adds the record in one transaction
VanillaAddCost(cost, today) ==
  /\ Vanilla
  /\ Len(costs) < MaxCosts
  /\ IF IsFinite(ToNumber(cost.sum)) /\ cost.currency # ""
     THEN /\ costs' = Append(costs, VanillaCostOf(cost, today, keyGen))
          /\ keyGen' = keyGen + 1
          /\ lastEvent' = AddEv(cost, "complete", "resolved",
                                  VanillaCostOf(cost, today, keyGen))
     ELSE /\ UNCHANGED dbVars
          /\ lastEvent' = AddEv(cost, "none", "rejected", Undefined)
  /\ UNCHANGED <<impl, reactVars, vanillaVars, inflight, call>>

\* db.addCost(cost) whose transaction does not complete, for a cost that
\* passes the checks: nothing is stored; tx.onerror rejects the promise,
\* and nothing listens for an abort
VanillaAddCostFails(cost, how) ==
  /\ Vanilla
  /\ IsFinite(ToNumber(cost.sum)) /\ cost.currency # ""
  /\ lastEvent' = AddEv(cost, how, IF how = "error" THEN "rejected" ELSE "pending",
                        Undefined)
  /\ UNCHANGED <<impl, reactVars, vanillaVars, inflight, dbVars, call>>

--------------------------------------------------------------------------
(* Inputs *)

\* what the URL field of Settings may hold
UrlInputs == {"", CustomUrl}

\* what CostForm may submit
FormInputs ==
  {[sum |-> Q(100, 1), currency |-> "USD", category |-> "Food", description |-> ""]}

\* a record of an import file: a currency outside the four, a key, a date
ItemJPY ==
  [id |-> 1, sum |-> Q(50, 1), currency |-> ForeignCurrency, category |-> "Food",
   description |-> "sushi", Date |-> [year |-> 2025, month |-> 1, day |-> 7]]

\* import files that carry records
Payloads ==
  {[costs |-> <<ItemJPY>>, rates |-> RawC],
   [costs |-> <<ItemJPY>>, rates |-> RawMissingILS],
   [array |-> <<ItemJPY>>]}

\* import files that carry no record
EmptyPayloads ==
  {[costs |-> <<>>, rates |-> RawC],
   [costs |-> <<>>, rates |-> RawMissingILS],
   [array |-> <<>>]}

\* the arguments of the aggregates
Years == {2025}
Months == {1}
Targets == {"USD", "ILS", ForeignCurrency}

\* what the vanilla library's caller may pass
VanillaCosts ==
  {[sum |-> Q(100, 1), currency |-> "usd", category |-> "Food", description |-> ""],
   [sum |-> Q(50, 1), currency |-> "jpy", category |-> "Food", description |-> ""]}
VanillaTargets == {"", "ILS", "jpy"}

(* Inputs of the ledger specification *)

\* the day the clock shows
LedgerDates == {[year |-> 2025, month |-> 2, day |-> 3]}

\* arguments of idb.ts addCost: sums that are no binary fractions, a
\* negative sum under a category that differs in case only, and sums that
\* are not finite
ApiInputs ==
  {[sum |-> Q(1005, 1000), currency |-> "USD", category |-> "Food",
    description |-> "lunch"],
   [sum |-> Q(1, 10), currency |-> "USD", category |-> "Food",
    description |-> "gum"],
   [sum |-> Q(-125, 1000), currency |-> "USD", category |-> "food",
    description |-> "refund"],
   [sum |-> NaN, currency |-> "USD", category |-> "Food", description |-> ""],
   [sum |-> Inf(1), currency |-> "USD", category |-> "Food", description |-> ""]}

\* records of an import file: one with a key and a date of another
\* month, one whose sum is text and that has no date and no description
ItemGBP ==
  [id |-> 1, sum |-> Q(50, 1), currency |-> "GBP", category |-> "Rent",
   description |-> "flat", Date |-> [year |-> 2025, month |-> 1, day |-> 7]]
ItemText == [sum |-> Text, currency |-> "USD", category |-> "Misc"]

\* records of an import file whose date is not one of the calendar: a
\* thirteenth month, and a date without a year
ItemMonth13 ==
  [sum |-> Q(50, 1), currency |-> "USD", category |-> "Misc",
   Date |-> [year |-> 2025, month |-> 13, day |-> 40]]
ItemNoYear ==
  [sum |-> Q(50, 1), currency |-> "USD", category |-> "Misc",
   Date |-> [month |-> 2, day |-> 3]]

LedgerPayloads ==
  {[costs |-> <<ItemGBP, ItemText>>, rates |-> RawMissingILS],
   [costs |-> <<ItemGBP>>, rates |-> RawB],
   [array |-> <<ItemText>>],
   [array |-> <<ItemNoYear, ItemMonth13>>]}

LedgerFns == Aggregates
LedgerMonths == {2}
LedgerTargets == {"USD", "ILS"}

\* arguments of the vanilla library's addCost and getReport
LedgerVanillaCosts ==
  {[sum |-> Q(1005, 1000), currency |-> "usd", category |-> "Food",
    description |-> "lunch"],
   [sum |-> Q(-125, 1000), currency |-> "usd", category |-> "food",
    description |-> "refund"],
   [sum |-> NaN, currency |-> "usd", category |-> "Food", description |-> ""]}
LedgerVanillaTargets == {"", "ILS"}

--------------------------------------------------------------------------
(* Specifications *)

Init ==
  /\ impl \in {"react", "vanilla"}
  /\ lsSource = NoItem
  /\ lsUrl = NoItem
  /\ lsInline = NoRates
  /\ currentRates = NoRates
  /\ _ratesUrl = DEFAULT_RATES_URL
  /\ _inlineRates = NoRates
  /\ _currentRates = NoRates
  /\ inflight = IF impl = "react"
                THEN SetToBag({Fetch("init", DEFAULT_RATES_URL)}) ELSE EmptyBag
  /\ costs = <<>>
  /\ keyGen = 1
  /\ call = NoCall
  /\ lastEvent = IF impl = "react"
                 THEN Ev("start", DEFAULT_RATES_URL, FALSE, NoRates)
                 ELSE Ev("load", NoFetch, FALSE, NoRates)

\* The ledger and the aggregates, with the rate table changing under them:
\* page loads, refreshes of the default URL, inline saves and imports
Next ==
  \/ ProcessStart
  \/ \E f \in BagToSet(inflight) : \E out \in FetchOutcomes(f.url) : FetchDone(f, out)
  \/ RefreshRatesFromUrl
  \/ \E raw \in {RawC, RawMissingILS} : SaveInline(raw)
  \/ \E input \in FormInputs : \E today \in Dates : AddCost(input, today)
  \/ \E json \in Payloads : \E today \in Dates : ImportFromJson(json, today)
  \/ \E fn \in Aggregates : \E y \in Years : \E m \in Months : \E t \in Targets :
        AggregateStart(fn, y, m, t)
  \/ AggregateFinish
  \/ \E raw \in {RawC, RawMissingILS} : VanillaSetInlineRates(raw)
  \/ \E y \in Years : \E m \in Months : \E t \in VanillaTargets : VanillaGetReport(y, m, t)
  \/ \E f \in BagToSet(inflight) : \E out \in FetchOutcomes(f.url) : VanillaFetchDone(f, out)
  \/ VanillaReadDone
  \/ \E cost \in VanillaCosts : \E today \in Dates : VanillaAddCost(cost, today)

Spec == Init /\ [][Next]_vars

\* The rate provider in full (every Settings handler, both URLs, every
\* candidate table) over a ledger that stays empty
NextRates ==
  \/ ProcessStart
  \/ \E f \in BagToSet(inflight) : \E out \in FetchOutcomes(f.url) : FetchDone(f, out)
  \/ RefreshRatesFromUrl
  \/ \E url \in UrlInputs : SaveUrl(url)
  \/ \E raw \in Candidates : SaveInline(raw)
  \/ \E s \in {"url", "inline-json"} : RadioSource(s)
  \/ OnFileChange
  \/ \E json \in EmptyPayloads : \E today \in Dates : ImportFromJson(json, today)
  \/ \E fn \in Aggregates : \E y \in Years : \E m \in Months :
        AggregateStart(fn, y, m, "USD")
  \/ AggregateFinish
  \/ VanillaLoad
  \/ \E url \in UrlInputs : VanillaSetRatesUrl(url)
  \/ \E raw \in Candidates : VanillaSetInlineRates(raw)
  \/ VanillaRefresh
  \/ \E y \in Years : \E m \in Months : VanillaGetReport(y, m, "")
  \/ \E f \in BagToSet(inflight) : \E out \in FetchOutcomes(f.url) : VanillaFetchDone(f, out)
  \/ VanillaReadDone

SpecRates == Init /\ [][NextRates]_vars

\* The ledger in full (calls of addCost, imports, exports, reports) with
\* one rate table that is absent or the README's
NextLedger ==
  \/ SaveInline(RawA)
  \/ \E input \in ApiInputs : \E today \in LedgerDates : AddCostApi(input, today)
  \/ \E json \in LedgerPayloads : \E today \in LedgerDates : ImportFromJson(json, today)
  \/ ExportStart
  \/ ExportFinish
  \/ \E fn \in LedgerFns : \E y \in Years : \E m \in LedgerMonths : \E t \in LedgerTargets :
        AggregateStart(fn, y, m, t)
  \/ AggregateFinish
  \/ VanillaSetInlineRates(RawA)
  \/ \E cost \in LedgerVanillaCosts : \E today \in LedgerDates : VanillaAddCost(cost, today)
  \/ \E y \in Years : \E m \in LedgerMonths : \E t \in LedgerVanillaTargets :
        VanillaGetReport(y, m, t)
  \/ \E f \in BagToSet(inflight) : \E out \in FetchOutcomes(f.url) : VanillaFetchDone(f, out)
  \/ VanillaReadDone

SpecLedger == Init /\ [][NextLedger]_vars

\* The calls of the ledger and of the aggregates from their start to
\* their end, over a ledger of equal records, with targets inside and
\* outside the table
NextCalls ==
  \/ SaveInline(RawA)
  \/ \E input \in {x \in ApiInputs : x.description = "lunch"} :
        \/ \E today \in LedgerDates : AddCostApi(input, today)
        \/ \E how \in TxFailures : AddCostFails(input, how)
  \/ \E json \in LedgerPayloads : \E k \in 1..MaxCosts : \E how \in TxFailures :
        ImportFails(json, k, how)
  \/ ExportStart
  \/ ExportFinish
  \/ \E fn \in Aggregates : \E y \in Years : \E m \in LedgerMonths :
        \E t \in {"ILS", ForeignCurrency} : AggregateStart(fn, y, m, t)
  \/ AggregateFinish
  \/ VanillaSetInlineRates(RawA)
  \/ \E cost \in {x \in LedgerVanillaCosts : x.description = "lunch"} :
        \/ \E today \in LedgerDates : VanillaAddCost(cost, today)
        \/ \E how \in TxFailures : VanillaAddCostFails(cost, how)
  \/ \E y \in Years : \E m \in LedgerMonths : \E t \in {"ILS", "jpy"} :
        VanillaGetReport(y, m, t)
  \/ \E f \in BagToSet(inflight) : \E out \in FetchOutcomes(f.url) : VanillaFetchDone(f, out)
  \/ VanillaReadDone

\* every read of the store and every fetch is answered in the end. The
\* last conjunct is the weak fairness of AggregateFinish and of
\* VanillaReadDone: one of the two is enabled exactly when call.phase is
\* "reading", and each of their steps leaves that phase
SpecCalls ==
  /\ Init /\ [][NextCalls]_vars
  /\ WF_vars(ExportFinish)
  /\ WF_vars(\E f \in BagToSet(inflight) : \E out \in FetchOutcomes(f.url) :
               VanillaFetchDone(f, out))
  /\ []<>(call.phase # "reading")

--------------------------------------------------------------------------
(* convert and toFixed2 as functions *)

\* convert(amount, from, to, rates) called with a table or without one
\* (NoRates), and its result shown by toFixed2. The function keeps nothing
\* between its calls, so a run follows one call
Convert(amount, from, to, rates) ==
  /\ call.phase = "none"
  /\ LET x == IF React THEN convertTs(amount, from, to, rates, currentRates)
                        ELSE convertVanilla(amount, from, to, rates, _currentRates)
     IN  call' = [phase |-> IF x.ok THEN "returned" ELSE "threw",
                  fn |-> "convert", year |-> 0, month |-> 0,
                  currency |-> to, r |-> rates, rows |-> <<>>, used |-> <<>>,
                  value |-> x.v, amount |-> amount, from |-> from,
                  text |-> toFixed2(x.v)]
  /\ lastEvent' = Ev("convert", NoFetch, FALSE, NoRates)
  /\ UNCHANGED <<impl, reactVars, vanillaVars, inflight, dbVars>>

\* the amounts handed to convert
ConvertAmounts == {Zero, Q(200, 1), Q(100, 1), Q(1005, 1000), Q(9, 100), Q(-125, 1000)}

\* the tables handed to convert: none, or a valid one
ConvertTables == {NoRates} \cup {normalizeRates(raw).rates : raw \in {RawA, RawB, RawC}}

\* convert over the supported codes, before and after the module holds a
\* table of its own
NextConvert ==
  \/ SaveInline(RawA)
  \/ VanillaSetInlineRates(RawA)
  \/ \E amount \in ConvertAmounts : \E from \in Currency : \E to \in Currency :
        \E rates \in ConvertTables : Convert(amount, from, to, rates)

SpecConvert == Init /\ [][NextConvert]_vars

--------------------------------------------------------------------------
(* Properties *)

\* the configured URL of the build that runs
ConfiguredUrl == IF React THEN getRatesUrl ELSE _ratesUrl

\* an aggregate call has settled, or will never settle
Settled == call.phase \in {"resolved", "rejected", "hung"}

\* the startup fetch of initCurrencyRates has not returned
InitPending == \E f \in BagToSet(inflight) : f.op = "init"

(* C1: The active rate table of either build is absent or has the four   *)
(* keys with finite values > 0 in every reachable state, and a handler   *)
(* that rejected a candidate table (inline save, import, fetch) left the *)
(* active table as it was.                                               *)
C1_ActiveTableValid ==
  /\ currentRates # NoRates => ValidTable(currentRates)
  /\ _currentRates # NoRates => ValidTable(_currentRates)
  /\ lastEvent.rejected => ActiveRates = lastEvent.before

\* an import whose rates block was rejected while a table was active
C1_Witness ==
  /\ React
  /\ lastEvent.op = "import"
  /\ lastEvent.rejected
  /\ currentRates # NoRates

(* C2: With the source inline and an inline table stored, a page load    *)
(* and an aggregate call send no request; in the vanilla build getReport *)
(* sends none once an inline table is set.                               *)
C2_InlineNeverFetches ==
  /\ (React /\ lsSource = "inline-json" /\ lsInline # NoRates
        /\ lastEvent.op \in Aggregates \cup {"start"})
       => lastEvent.fetched = NoFetch
  /\ (Vanilla /\ _inlineRates # NoRates /\ lastEvent.op = "getReport")
       => lastEvent.fetched = NoFetch

\* a page load in inline mode after a custom URL had been saved
C2_Witness ==
  /\ React
  /\ lastEvent.op = "start"
  /\ lsSource = "inline-json"
  /\ lsUrl = CustomUrl
  /\ currentRates = lsInline
  /\ currentRates # NoRates

(* C3: Whenever the persisted source is inline, the session cache is the *)
(* persisted inline table and is not empty.                              *)
C3_InlineCacheIsInlineTable ==
  (React /\ lsSource = "inline-json")
    => (currentRates = lsInline /\ currentRates # NoRates)

(* C4: Right after the source is switched to URL (Save URL, the URL      *)
(* radio, idb.setRatesUrl) the session cache is empty.                   *)
C4_SwitchToUrlClearsCache ==
  ((React /\ lastEvent.op \in {"saveUrl", "radioUrl"})
     \/ (Vanilla /\ lastEvent.op = "setRatesUrl"))
    => ActiveRates = NoRates

(* C5: An aggregate call that ran without a rate table and had to        *)
(* convert a record into another currency is rejected.                   *)
C5_NoRatesFailsExplicitly ==
  (/\ React
   /\ Settled
   /\ call.r = NoRates
   /\ \E i \in Indices(call.rows) : call.rows[i].currency # call.currency)
    => call.phase = "rejected"

(* C6: An aggregate call whose table lacks the rate of the target        *)
(* currency or of a matching record's currency is rejected.              *)
C6_MissingRateFails ==
  (/\ React
   /\ Settled
   /\ call.r # NoRates
   /\ \/ NoRate(call.r, call.currency) /\ call.rows # <<>>
      \/ \E i \in Indices(call.rows) : NoRate(call.r, call.rows[i].currency))
    => call.phase = "rejected"

(* C7: Every conversion of a settled aggregate call used one table, the  *)
(* one that was active when the call was made, whatever replaced the     *)
(* active table while the call was suspended.                            *)
C7_OneTablePerCall ==
  Settled => \A i \in Indices(call.used) : call.used[i] = call.r

\* a report of two lines settled after the active table was replaced
C7_Witness ==
  /\ React
  /\ call.phase = "resolved"
  /\ Len(call.used) >= 2
  /\ call.r # NoRates
  /\ currentRates # NoRates
  /\ currentRates # call.r
  /\ \E i \in Indices(call.rows) : call.rows[i].currency # call.currency

(* C8: No aggregate is started while the startup fetch is pending.       *)
C8_NoAggregateBeforeRatesReady ==
  (React /\ call.phase = "reading") => ~InitPending

(* C9: Every refresh sends a request to the configured URL.              *)
C9_RefreshAlwaysFetches ==
  lastEvent.op = "refresh" => lastEvent.fetched = ConfiguredUrl

(* C10: Under the URL source at most one fetch is in flight: overlapping *)
(* refresh and startup calls share one round trip.                       *)
C10_SingleFlight ==
  ((React /\ getRatesSource = "url") \/ (Vanilla /\ _inlineRates = NoRates))
    => Pending <= 1

(* C11: No step removes or changes a record of the ledger, and the keys  *)
(* of the ledger stay pairwise distinct: an imported record gets a fresh *)
(* key even when the payload carries the key of an existing record.      *)
C11_AppendOnlyFreshKeys ==
  [][/\ Len(costs') >= Len(costs)
     /\ SubSeq(costs', 1, Len(costs)) = costs
     /\ \A i, j \in Indices(costs') : i # j => costs'[i].id # costs'[j].id]_vars

\* an import of a record carrying key 1 into a ledger that holds key 1
C11_Witness ==
  /\ React
  /\ lastEvent.op = "import"
  /\ Len(costs) = 2
  /\ costs[1].id = 1 /\ costs[1].category = "Food"
  /\ costs[2].description = "flat" /\ costs[2].id = 2
  /\ \E i \in Indices(lastEvent.payload.costs) : lastEvent.payload.costs[i].id = 1

(* C12: An import whose rates block fails validation adds every record   *)
(* of the payload, resolves with their number, and leaves the active     *)
(* table, the persisted inline table and the source mode as they were.   *)
C12_InvalidRatesImportKeepsRates ==
  [][(lastEvent'.op = "import" /\ lastEvent'.rejected)
       => /\ Len(costs') = Len(costs) + Len(lastEvent'.payload.costs)
          /\ lastEvent'.returned = Len(lastEvent'.payload.costs)
          /\ currentRates' = currentRates
          /\ lsInline' = lsInline
          /\ lsSource' = lsSource]_vars

\* an import of two records with a rates block that lacks ILS, made
\* while a table was active
C12_Witness ==
  /\ React
  /\ lastEvent.op = "import"
  /\ lastEvent.rejected
  /\ Len(lastEvent.payload.costs) = 2
  /\ "ILS" \notin DOMAIN lastEvent.payload.rates
  /\ Len(costs) = 2
  /\ currentRates # NoRates
  /\ lsSource = "inline-json"

(* C13: Right after an import whose rates block passes validation, the   *)
(* active table and the persisted inline table are the validated table   *)
(* and the source mode is inline.                                        *)
C13_ValidRatesImportApplies ==
  (/\ React
   /\ lastEvent.op = "import"
   /\ "rates" \in DOMAIN lastEvent.payload
   /\ \A k \in Currency : ~BadRate(RateOf(lastEvent.payload.rates, k)))
    => /\ currentRates = [k \in Currency |-> RateOf(lastEvent.payload.rates, k)]
       /\ lsInline = currentRates
       /\ lsSource = "inline-json"

\* an import with a valid rates block that replaced the table a
\* suspended report had read
C13_Witness ==
  /\ React
  /\ lastEvent.op = "import"
  /\ ~lastEvent.rejected
  /\ "rates" \in DOMAIN lastEvent.payload
  /\ lsSource = "inline-json"
  /\ call.phase = "reading"
  /\ call.r # NoRates
  /\ call.r # currentRates

(* C14: A call of addCost whose sum is not finite is rejected and leaves *)
(* the ledger as it was.                                                 *)
C14_NonFiniteSumRejected ==
  [][(lastEvent'.op = "addCost" /\ ~IsFinite(ToNumber(lastEvent'.input.sum)))
       => (lastEvent'.failed /\ costs' = costs)]_vars

(* C15: Every record of the ledger has a finite sum and a currency among *)
(* USD, GBP, EURO, ILS.                                                  *)
C15_RecordsValid ==
  \A i \in Indices(costs) :
     IsFinite(costs[i].sum) /\ costs[i].currency \in Currency

(* C16: The payload exportAll returned, written to a file and imported   *)
(* into an empty store, gives as many records as were exported, with the *)
(* same sum, currency, category and description in the same order.       *)
C16_ExportImportRoundTrip ==
  (React /\ call.phase = "resolved" /\ call.fn = "exportAll")
    => \A today \in LedgerDates :
         LET orig == call.value.costs
             back == ImportedRows(PayloadCosts(JsonFile(call.value)), today, 1)
         IN  /\ Len(back) = Len(orig)
             /\ \A i \in Indices(orig) :
                  /\ back[i].sum = orig[i].sum
                  /\ back[i].currency = orig[i].currency
                  /\ back[i].category = orig[i].category
                  /\ back[i].description = orig[i].description

(* C17: When exportAll returns, its costs are the rows of the store, and *)
(* its rates are the active table, or are left out when no table is      *)
(* active.                                                               *)
C17_ExportReturnsAll ==
  (React /\ lastEvent.op = "settled" /\ call.phase = "resolved"
     /\ call.fn = "exportAll")
    => /\ call.value.costs = costs
       /\ IF currentRates # NoRates
          THEN "rates" \in DOMAIN call.value /\ call.value.rates = currentRates
          ELSE "rates" \notin DOMAIN call.value

\* an export of two records made while a table was active
C17_Witness ==
  /\ React
  /\ lastEvent.op = "settled"
  /\ call.phase = "resolved"
  /\ call.fn = "exportAll"
  /\ Len(call.value.costs) = 2
  /\ "rates" \in DOMAIN call.value
  /\ call.value.rates = currentRates
  /\ currentRates # NoRates

(* C18: The total of a monthly report is the sum of the unrounded        *)
(* amounts of its lines, rounded once to two decimals; three lines of    *)
(* 1.005 give a total of 3.02.                                           *)
C18_SumThenRound ==
  (React /\ call.phase = "resolved" /\ call.fn = "getReport")
    => LET lines == call.value.costs
           total == call.value.total.total
       IN  /\ total = Round2(SumSeq([i \in Indices(lines) |-> lines[i].sum]))
           /\ (Len(lines) = 3 /\ \A i \in Indices(lines) : lines[i].sum = Q(1005, 1000))
                => total = Q(302, 100)

(* C19: When a monthly report returns, it has one line for each record   *)
(* of the requested year and month and no other, in the order of the     *)
(* store, and each line has the record's day, category and description,  *)
(* the target currency code, and the record's sum converted with the     *)
(* table of the call (sum / rate[from] * rate[to]; the sum itself when   *)
(* the record is in the target currency).                                *)
C19_ReportLines ==
  (lastEvent.op = "settled" /\ call.phase = "resolved"
     /\ call.fn = "getReport" /\ call.r # NoRates)
    => LET hit == SelectSeqBy(costs, {i \in Indices(costs) :
                     costs[i].Date.year = call.year
                       /\ costs[i].Date.month = call.month})
           lines == call.value.costs
       IN  /\ Len(lines) = Len(hit)
           /\ \A j \in Indices(hit) :
                /\ lines[j].Date.day = hit[j].Date.day
                /\ lines[j].category = hit[j].category
                /\ lines[j].description = hit[j].description
                /\ lines[j].currency = call.currency
                /\ lines[j].sum =
                     IF hit[j].currency = call.currency THEN OrZero(hit[j].sum)
                     ELSE NumMul(NumDiv(OrZero(hit[j].sum), call.r[hit[j].currency]),
                                 call.r[call.currency])

(* C20: When the totals of a year return, they are 12 entries labelled   *)
(* 01 to 12 in order; the total of a month without a record of that year *)
(* is 0, and with a table the total of any other month is the sum, in    *)
(* the order of the store, of the converted amounts of its records.      *)
C20_TwelveMonths ==
  (React /\ lastEvent.op = "settled" /\ call.phase = "resolved"
     /\ call.fn = "getYearMonthTotals")
    => /\ Len(call.value) = 12
       /\ \A m \in 1..12 :
            LET of == SelectSeqBy(costs, {i \in Indices(costs) :
                         costs[i].Date.year = call.year /\ costs[i].Date.month = m})
                amount(c) ==
                  IF c.currency = call.currency THEN OrZero(c.sum)
                  ELSE NumMul(NumDiv(OrZero(c.sum), call.r[c.currency]),
                              call.r[call.currency])
            IN  /\ call.value[m].month =
                     <<"01", "02", "03", "04", "05", "06",
                       "07", "08", "09", "10", "11", "12">>[m]
                /\ of = <<>> => call.value[m].total = Zero
                /\ (of # <<>> /\ call.r # NoRates)
                     => call.value[m].total =
                          SumSeq([i \in Indices(of) |-> amount(of[i])])

\* totals in ILS of a year with records in January (GBP) and February
\* (USD) and none in March
C20_Witness ==
  /\ React
  /\ lastEvent.op = "settled"
  /\ call.phase = "resolved"
  /\ call.fn = "getYearMonthTotals"
  /\ call.r # NoRates
  /\ call.currency = "ILS"
  /\ \E i \in Indices(costs) : costs[i].Date.month = 1 /\ costs[i].currency = "GBP"
  /\ \E i \in Indices(costs) : costs[i].Date.month = 2 /\ costs[i].currency = "USD"
  /\ call.value[1].total # Zero
  /\ call.value[2].total # Zero
  /\ call.value[3].total = Zero

(* C21: When the category totals of a month return, they hold exactly   *)
(* one pair for each distinct category string among the records of that  *)
(* year and month, strings that differ in case being distinct, and with  *)
(* a table the total of a pair is the sum, in the order of the store, of *)
(* the converted amounts of the records of its category.                 *)
C21_CategoryTotals ==
  (React /\ lastEvent.op = "settled" /\ call.phase = "resolved"
     /\ call.fn = "getMonthCategoryTotals")
    => LET hit == SelectSeqBy(costs, {i \in Indices(costs) :
                     costs[i].Date.year = call.year
                       /\ costs[i].Date.month = call.month})
           names == {hit[i].category : i \in Indices(hit)}
           amount(c) ==
             IF c.currency = call.currency THEN OrZero(c.sum)
             ELSE NumMul(NumDiv(OrZero(c.sum), call.r[c.currency]),
                         call.r[call.currency])
       IN  /\ Len(call.value) = Cardinality(names)
           /\ {call.value[j].name : j \in Indices(call.value)} = names
           /\ call.r # NoRates
                => \A j \in Indices(call.value) :
                     LET of == SelectSeqBy(hit, {i \in Indices(hit) :
                                  hit[i].category = call.value[j].name})
                     IN  call.value[j].value =
                           SumSeq([i \in Indices(of) |-> amount(of[i])])

\* totals in ILS of a month with two records under "Food" and one under
\* "food"
C21_Witness ==
  /\ React
  /\ lastEvent.op = "settled"
  /\ call.phase = "resolved"
  /\ call.fn = "getMonthCategoryTotals"
  /\ call.r # NoRates
  /\ call.currency = "ILS"
  /\ Len(costs) = 3
  /\ Cardinality({i \in Indices(costs) : costs[i].category = "Food"}) = 2
  /\ Cardinality({i \in Indices(costs) : costs[i].category = "food"}) = 1
  /\ Len(call.value) = 2

(* C22: Every call of addCost ends with its promise resolved or          *)
(* rejected, and every aggregate or export call that is suspended is     *)
(* resolved or rejected in the end, given that every read of the store   *)
(* and every fetch is answered; an error thrown while the rows are       *)
(* processed, or an abort of the transaction, rejects the call.          *)
C22_EveryCallSettles ==
  /\ [](lastEvent.op = "addCost" => lastEvent.outcome # "pending")
  /\ (call.phase \in {"reading", "rates", "exporting"})
       ~> (call.phase \in {"resolved", "rejected"})

(* C23: When the transaction of an addCost does not complete, the call   *)
(* is rejected, the store holds the records it held before and its key   *)
(* generator is where it was.                                            *)
C23_FailedAddLeavesNoRecord ==
  [][(lastEvent'.op = "addCost" /\ lastEvent'.tx \in TxFailures)
       => (lastEvent'.failed /\ costs' = costs /\ keyGen' = keyGen)]_vars

(* C26: A call of addCost that resolves delivers the record it stored,   *)
(* key included, and that record is the only one of the store under that *)
(* key.                                                                  *)
C26_AddReturnsStoredRecord ==
  (lastEvent.op = "addCost" /\ lastEvent.outcome = "resolved")
    => /\ lastEvent.returned # Undefined
       /\ \E i \in Indices(costs) : costs[i] = lastEvent.returned
       /\ \A i \in Indices(costs) :
            costs[i].id = lastEvent.returned.id => costs[i] = lastEvent.returned


(* C24: converting a finite amount from a supported currency to the same
   currency under a valid rate table returns the amount itself. *)
C24_SameCurrencyIdentity ==
  (/\ call.phase \in {"returned", "threw"}
   /\ call.r # NoRates
   /\ call.from = call.currency)
  => (call.phase = "returned" /\ call.value = call.amount)

(* C25: under the table USD 1, GBP 1.8, EURO 0.7, ILS 3.4, toFixed2 shows
   the conversion of 200 USD to ILS as 680.00 and the conversion of
   100 ILS to USD as 29.41. *)
C25_WorkedExamples ==
  (call.phase = "returned" /\ call.r = normalizeRates(RawA).rates)
  => /\ (call.amount = Q(200, 1) /\ call.from = "USD" /\ call.currency = "ILS")
          => call.text = [neg |-> FALSE, cents |-> Q(68000, 1)]
     /\ (call.amount = Q(100, 1) /\ call.from = "ILS" /\ call.currency = "USD")
          => call.text = [neg |-> FALSE, cents |-> Q(2941, 1)]

C25_Witness ==
  /\ call.phase = "returned" /\ call.r = normalizeRates(RawA).rates
  /\ call.amount = Q(100, 1) /\ call.from = "ILS" /\ call.currency = "USD"
  /\ call.value # Q(2941, 100)
  /\ call.text = [neg |-> FALSE, cents |-> Q(2941, 1)]


\* the URL source is in force: no inline table is selected
UrlSource == IF React THEN getRatesSource = "url" ELSE _inlineRates = NoRates

(* C27: a restart under the URL source leaves the session cache empty and
   leaves in flight nothing but the request of the new session; from then
   on, under the URL source, an empty cache gets a table only by a fetch
   that succeeds, and a fetch that fails leaves it empty. So no table of
   an earlier session is ever the active table. *)
C27_RestartStartsEmpty ==
  [][/\ (lastEvent'.op \in {"start", "load"} /\ UrlSource')
          => /\ ActiveRates' = NoRates
             /\ \A f \in BagToSet(inflight') : f = Fetch("init", getRatesUrl')
             /\ BagCardinality(inflight') <= 1
     /\ (UrlSource /\ UrlSource' /\ ActiveRates = NoRates /\ ActiveRates' # NoRates)
          => /\ lastEvent'.op = "fetched"
             /\ BagCardinality(inflight') < BagCardinality(inflight)
     /\ (lastEvent'.op = "fetchFailed" /\ ActiveRates = NoRates)
          => ActiveRates' = NoRates
    ]_vars

\* after a restart the startup fetch has failed: the table saved in an
\* earlier session is in storage, the URL source is in force, and the
\* cache is empty
C27_Witness ==
  /\ React /\ UrlSource
  /\ lsInline # NoRates
  /\ lastEvent.op = "fetchFailed"
  /\ inflight = EmptyBag
  /\ currentRates = NoRates


(* C28: for a fixed rate table and fixed arguments, an aggregate that
   resolved returns the same totals for every ordering of the records it
   read: the same report total, the same total per category, the same
   total per month. *)
C28_OrderIndependent ==
  (React /\ call.phase = "resolved" /\ call.fn \in Aggregates)
  => LET n == Len(call.rows)
         totals(v) ==
           IF call.fn = "getReport" THEN {v.total.total}
           ELSE {v[j] : j \in 1..Len(v)}
     IN  \A p \in {q \in [1..n -> 1..n] : \A i, j \in 1..n : q[i] = q[j] => i = j} :
           LET res == AggregateOf(call.fn, [i \in 1..n |-> call.rows[p[i]]],
                                  call.year, call.month, call.currency,
                                  RatesOfCall(call))
           IN  res.ok /\ totals(res.value) = totals(call.value)


(* C29: when the only fetch in flight was issued by refresh and it fails
   (no response, a status that is not a success, or a body that is not a
   valid table), then under the URL source the session cache is empty
   afterwards: the table held before the refresh is no longer active. *)
C29_FailedRefreshClears ==
  [][(/\ lastEvent'.op = "fetchFailed"
      /\ UrlSource'
      /\ inflight = SetToBag({Fetch("refresh", IF React THEN getRatesUrl ELSE _ratesUrl)})
      /\ inflight' = EmptyBag)
     => ActiveRates' = NoRates]_vars


(* C30: the total of a monthly report is the exact sum of the converted
   amounts rounded to two decimals with ties away from zero, for a
   negative sum as for a positive one. Stated for a report of one row,
   whose sum is exactly the converted amount of that row: the total is
   that amount's hundredths, rounded half away from zero, over 100. *)
C30_TotalHalfAwayFromZero ==
  (/\ call.phase = "resolved" /\ call.fn = "getReport"
   /\ Len(call.rows) = 1)
  => LET a == IF React THEN OrZero(call.value.costs[1].sum)
              ELSE convertVanilla(call.rows[1].sum, call.rows[1].currency,
                                  call.currency, call.r, call.r).v
     IN  IsFinite(a)
         => LET cents == MathRound(Exact(1, BigMulSmall(a.m, 100), a.e))
            IN  call.value.total.total =
                  NumDiv(IF cents.sg = 0 THEN cents ELSE [cents EXCEPT !.sg = a.sg],
                         Hundred)


(* C31: when the storage fails during an import, the import call is
   rejected and the store afterwards holds the records it held before,
   followed by the records made from a prefix of the payload's items in
   payload order, each of them whole. *)
C31_FailedImportLeavesPrefix ==
  [][(lastEvent'.op = "importFailed")
       => /\ lastEvent'.outcome = "rejected"
          /\ \E n \in 0..Len(PayloadCosts(lastEvent'.payload)) :
               \E today \in LedgerDates :
                 costs' = costs \o ImportedRows(
                             SubSeq(PayloadCosts(lastEvent'.payload), 1, n),
                             today, keyGen)]_vars


(* C32: every record an import stores carries the date of its payload
   item when that date has a year, a month in 1..12 and a day, and the
   current date otherwise; so the date of a stored record always is one
   of the calendar. *)
C32_ImportedDateWellFormed ==
  [][(lastEvent'.op = "import")
       => LET arr == PayloadCosts(lastEvent'.payload)
              first == Len(costs') - Len(arr)
          IN  \A i \in 1..Len(arr) :
                LET raw == arr[i]
                    row == costs'[first + i]
                    wellFormed ==
                      /\ "Date" \in DOMAIN raw
                      /\ {"year", "month", "day"} \subseteq DOMAIN raw.Date
                      /\ raw.Date.month \in 1..12
                      /\ raw.Date.day \in 1..31
                IN  /\ IF wellFormed THEN row.Date = raw.Date
                       ELSE row.Date \in LedgerDates
                    /\ row.Date.month \in 1..12]_vars


(* C33: when the startup fetch completes after the user has switched to
   inline rates, so that the source is inline and the saved inline table
   is the active one, the fetched table does not replace it. *)
C33_LateFetchKeepsInline ==
  [][(/\ React
      /\ lastEvent'.op = "fetched"
      /\ \E f \in BagToSet(inflight) :
           f.op = "init" /\ inflight' = inflight (-) SetToBag({f})
      /\ getRatesSource = "inline-json"
      /\ lsInline # NoRates
      /\ currentRates = lsInline)
     => currentRates' = currentRates]_vars


(* C34: whenever the persisted source is inline, a valid inline table is
   persisted with it; and a page load under the inline source ends with
   an active table and with no request sent. *)
C34_InlineSourceHasTable ==
  (React /\ getRatesSource = "inline-json")
  => /\ lsInline # NoRates
     /\ normalizeRates(lsInline).ok
     /\ lastEvent.op = "start" => (currentRates # NoRates /\ inflight = EmptyBag)


(* C35: for the ledger, the table, the year, the month and the target of
   a resolved aggregate call, the category totals of the month add up to
   the unrounded total of the month's report, and that total is the
   entry of the month in the totals of the year. *)
C35_AggregatesAgree ==
  (React /\ call.phase = "resolved" /\ call.fn \in Aggregates)
  => LET r == RatesOfCall(call)
         rep == ReportOf(costs, call.year, call.month, call.currency, r)
         cat == CategoryTotalsOf(costs, call.year, call.month, call.currency, r)
         yr == YearTotalsOf(costs, call.year, call.currency, r)
     IN  (rep.ok /\ cat.ok /\ yr.ok)
         => LET unrounded == SumSeq([i \in Indices(rep.value.costs) |->
                                        OrZero(rep.value.costs[i].sum)])
            IN  /\ SumSeq([j \in Indices(cat.value) |-> cat.value[j].value]) = unrounded
                /\ yr.value[call.month].total = unrounded

====
